---------------------------- MODULE Spec2Model ----------------------------
(***************************************************************************)
(* A model of the Instagram profile scraper actor: the run of main.js      *)
(* (input destructuring and validation, URL preparation, the crawl with    *)
(* its request handler) and the extraction functions the handler calls.    *)
(*                                                                         *)
(* JavaScript values are tagged records, so that null, undefined, NaN,     *)
(* strings, numbers, booleans and arrays stay distinguishable.  A string   *)
(* is a sequence of chunks of characters; the chunks are chosen so that    *)
(* every pattern the code searches for begins and ends on a chunk border.  *)
(***************************************************************************)
EXTENDS Integers, Sequences, FiniteSets, TLC

VARIABLES
    input,      \* what Actor.getInput() returns
    pc,         \* position of the top-level script of main.js
    err,        \* the error the top-level script threw, if any
    opts,       \* the destructured options (defaults applied)
    requests,   \* the prepared request list handed to crawler.run
    req,        \* the crawler's request queue: unique url -> request state
    dataset,    \* the records pushed with Actor.pushData, in order
    calls,      \* history: one summary per requestHandler invocation
    script,     \* which script of the repository is running (record shapes)
    arg,        \* input of an extraction function run on its own
    res,        \* its result
    op          \* which extraction function produced res

runVars == <<input, pc, err, opts, requests, req, dataset, calls>>
fnVars == <<arg, res, op>>
vars == <<input, pc, err, opts, requests, req, dataset, calls, script, arg, res, op>>

---------------------------------------------------------------------------
(* JavaScript values *)

JNull == [t |-> "null"]
JUndef == [t |-> "undefined"]
JNaN == [t |-> "NaN"]
Str(s) == [t |-> "string", v |-> s]
Num(n) == [t |-> "number", v |-> n]
Bool(b) == [t |-> "boolean", v |-> b]
Arr(a) == [t |-> "array", v |-> a]
Obj(o) == [t |-> "object", v |-> o]

\* ToBoolean
Truthy(x) ==
    CASE x.t = "string" -> x.v # <<>>
      [] x.t = "number" -> x.v # 0
      [] x.t = "boolean" -> x.v
      [] x.t = "array" -> TRUE
      [] x.t = "object" -> TRUE
      [] OTHER -> FALSE

\* a || b
JsOr(a, b) == IF Truthy(a) THEN a ELSE b

\* typeof x, with null and arrays told apart
IsTyped(x, ty) == x.t = ty

---------------------------------------------------------------------------
(* Strings as sequences of chunks *)

\* s.includes(chunk)
Has(s, c) == \E i \in 1..Len(s) : s[i] = c

\* s.includes(a + b) for two adjacent chunks
HasPair(s, a, b) == \E i \in 1..(Len(s) - 1) : s[i] = a /\ s[i + 1] = b

\* number of characters of a string
RECURSIVE StrLen(_)
StrLen(s) == IF s = <<>> THEN 0 ELSE Len(Head(s)) + StrLen(Tail(s))

\* new Date().toISOString()
IsoNow == Str(<<"2025-05-30T10:00:00.000Z">>)

---------------------------------------------------------------------------
(* Program constants *)

DefaultMaxRetries == 3
DefaultMaxPostsToScrape == 12
CrawlerMaxConcurrency == 2
SchemaDefaultMaxConcurrency == 1

(* Bounds of the model *)

MaxUrls == 2
MaxRetriesIn == 1
MaxPostsIn == 2
MaxLinks == 3

---------------------------------------------------------------------------
(* Actor inputs *)

Names == <<"natgeo", "nasa", "bbc", "cnn">>

\* "https://www.instagram.com/<name>/"
FullUrl(n) == <<"http", "s", ":", "/", "/", "www.", "instagram.com", "/", n, "/">>

\* "instagram.com/<name>"
BareUrl(n) == <<"instagram.com", "/", n>>

\* the i-th profile of a list: {url: "https://..."} objects and bare strings
ValidEntry(i) ==
    IF i % 2 = 1 THEN Obj([url |-> Str(FullUrl(Names[i]))])
    ELSE Str(BareUrl(Names[i]))

\* entries URL preparation rejects: not an Instagram URL, an object with no url
BadEntries ==
    { Str(<<"http", "s", ":", "/", "/", "example.com", "/", "x">>),
      Obj([url |-> JUndef]) }

\* the same profile given twice, with and without the trailing slash
DupList == <<ValidEntry(1), Str(SubSeq(FullUrl(Names[1]), 1, 9))>>

UrlLists ==
    { s \in UNION { [1..n -> {ValidEntry(i) : i \in 1..MaxUrls} \cup BadEntries]
                    : n \in 0..MaxUrls } :
        \A i \in 1..Len(s) : s[i] \in BadEntries \/ s[i] = ValidEntry(i) }
    \cup {DupList}

DefaultOutputFormat ==
    <<"username", "fullName", "bio", "followers", "following", "postsCount", "isVerified">>

\* values of the options besides profileUrls, one option set at a time
NoOptions ==
    [maxRetries |-> JUndef, includeRecentPosts |-> JUndef,
     maxPostsToScrape |-> JUndef, maxConcurrency |-> JUndef,
     outputFormat |-> JUndef]

RetryOptionSets == { [NoOptions EXCEPT !.maxRetries = Num(r)] : r \in 0..MaxRetriesIn }

OptionSets ==
    {NoOptions}
    \cup { [NoOptions EXCEPT !.includeRecentPosts = Bool(FALSE)] }
    \cup { [NoOptions EXCEPT !.includeRecentPosts = Bool(TRUE), !.maxPostsToScrape = m]
           : m \in {JUndef} \cup { Num(k) : k \in 1..MaxPostsIn } }
    \cup { [NoOptions EXCEPT !.maxConcurrency = Num(c)] : c \in 1..2 }
    \cup { [NoOptions EXCEPT !.outputFormat = Arr(f)]
           : f \in {<<"username">>, DefaultOutputFormat} }

MakeInput(urls, o) ==
    Obj([profileUrls |-> urls, maxRetries |-> o.maxRetries,
         includeRecentPosts |-> o.includeRecentPosts,
         maxPostsToScrape |-> o.maxPostsToScrape,
         maxConcurrency |-> o.maxConcurrency, outputFormat |-> o.outputFormat])

\* the option sets a list of n profiles comes with: every one for a single
\* profile; for longer lists every one with no retry, and for lists of two
\* each number of retries as well
OptionsFor(n) ==
    IF n <= 1 THEN OptionSets \cup RetryOptionSets
    ELSE { [o EXCEPT !.maxRetries = Num(0)] : o \in OptionSets }
         \cup (IF n = 2 THEN RetryOptionSets ELSE {})

\* null is what Actor.getInput() yields when the run was given no input
Inputs ==
    {JNull}
    \cup { MakeInput(u, o) : u \in {JUndef, JNull}, o \in OptionSets }
    \cup UNION { { MakeInput(Arr(l), o) : o \in OptionsFor(Len(l)) } : l \in UrlLists }

---------------------------------------------------------------------------
(* String helpers used by the extraction functions *)

IsWs(c) == c = " "

\* the start of the run of whitespace that ends just before index k
WsRunStart(s, k) ==
    CHOOSE p \in 1..k :
        /\ \A q \in p..(k - 1) : IsWs(s[q])
        /\ (p = 1 \/ ~IsWs(s[p - 1]))

\* s.trim()
Between(s, keep) ==
    IF keep = {} THEN <<>>
    ELSE SubSeq(s, CHOOSE i \in keep : \A j \in keep : i <= j,
                   CHOOSE i \in keep : \A j \in keep : i >= j)

Trim(s) == Between(s, { i \in 1..Len(s) : ~IsWs(s[i]) })

\* s with its elements in the set cs removed
RECURSIVE Without(_, _)
Without(s, cs) ==
    IF s = <<>> THEN <<>>
    ELSE IF Head(s) \in cs THEN Without(Tail(s), cs)
    ELSE <<Head(s)>> \o Without(Tail(s), cs)

\* s.replace(c, ''): the first occurrence of the chunk c removed
DropAt(s, i) == SubSeq(s, 1, i - 1) \o SubSeq(s, i + 1, Len(s))

RemoveFirst(s, c) ==
    IF ~Has(s, c) THEN s
    ELSE DropAt(s, CHOOSE k \in 1..Len(s) : s[k] = c /\ \A j \in 1..(k - 1) : s[j] # c)

Digits == {"0", "1", "2", "3", "4", "5", "6", "7", "8", "9"}

DigitVal(c) ==
    CASE c = "0" -> 0 [] c = "1" -> 1 [] c = "2" -> 2 [] c = "3" -> 3 [] c = "4" -> 4
      [] c = "5" -> 5 [] c = "6" -> 6 [] c = "7" -> 7 [] c = "8" -> 8 [] c = "9" -> 9

LowerChar(c) ==
    CASE c = "K" -> "k" [] c = "M" -> "m" [] c = "B" -> "b" [] OTHER -> c

\* the string with its letter case left as it is
SameCase(s) == s

\* s.toLowerCase(), on the alphabet of count strings
Lower(s) == [i \in 1..Len(s) |-> LowerChar(s[i])]

\* the value of a string of digits
RECURSIVE DigitsVal(_)
DigitsVal(s) ==
    IF s = <<>> THEN 0 ELSE 10 * DigitsVal(SubSeq(s, 1, Len(s) - 1)) + DigitVal(s[Len(s)])

\* the longest prefix of s made of elements of cs
RECURSIVE PrefixIn(_, _)
PrefixIn(s, cs) ==
    IF s = <<>> \/ Head(s) \notin cs THEN <<>>
    ELSE <<Head(s)>> \o PrefixIn(Tail(s), cs)

RECURSIVE Pow10(_)
Pow10(n) == IF n = 0 THEN 1 ELSE 10 * Pow10(n - 1)

\* parseInt(s): an optional sign, then the leading digits; NaN when there are none
DigitsOrNaN(d) == IF d = <<>> THEN JNaN ELSE Num(DigitsVal(d))

Negated(n) == IF n = JNaN THEN JNaN ELSE Num(0 - n.v)

ParseInt(s) ==
    IF s # <<>> /\ Head(s) = "-" THEN Negated(DigitsOrNaN(PrefixIn(Tail(s), Digits)))
    ELSE IF s # <<>> /\ Head(s) = "+" THEN DigitsOrNaN(PrefixIn(Tail(s), Digits))
    ELSE DigitsOrNaN(PrefixIn(s, Digits))

\* parseFloat(s) of an unsigned string, as the exact fraction num / den:
\* digits, then optionally a point and digits; NaN when no digit is read
Fraction(ip, fp) ==
    IF ip = <<>> /\ fp = <<>> THEN [nan |-> TRUE, num |-> 0, den |-> 1]
    ELSE [nan |-> FALSE, num |-> DigitsVal(ip \o fp), den |-> Pow10(Len(fp))]

FractionAfter(ip, rest) ==
    Fraction(ip, IF rest # <<>> /\ Head(rest) = "." THEN PrefixIn(Tail(rest), Digits)
                 ELSE <<>>)

IntegerThen(s, ip) == FractionAfter(ip, SubSeq(s, Len(ip) + 1, Len(s)))

ParseFloat(s) == IntegerThen(s, PrefixIn(s, Digits))

\* Math.round(f * mult) for a fraction f >= 0 (halves round up); NaN stays NaN.
\* The product is taken exactly; a double may differ in the last place.
RoundTimes(f, mult) ==
    IF f.nan THEN JNaN
    ELSE IF mult % f.den = 0 THEN Num(f.num * (mult \div f.den))
    ELSE Num((2 * f.num * mult + f.den) \div (2 * f.den))

\* parseInstagramCount(countStr)
\* cleanStr.match(/^([\d.]+)([kmb]?)$/) gave numberStr and multiplier
CountOf(numberStr, multiplier) ==
    CASE multiplier = "k" -> RoundTimes(ParseFloat(numberStr), 1000)
      [] multiplier = "m" -> RoundTimes(ParseFloat(numberStr), 1000000)
      [] multiplier = "b" -> RoundTimes(ParseFloat(numberStr), 1000000000)
      [] OTHER -> RoundTimes(ParseFloat(numberStr), 1)

IsNumberStr(s) == s # <<>> /\ \A i \in 1..Len(s) : s[i] \in Digits \cup {"."}

HasMultiplier(s) == s # <<>> /\ s[Len(s)] \in {"k", "m", "b"}

CountOfClean(cleanStr) ==
    IF HasMultiplier(cleanStr) /\ IsNumberStr(SubSeq(cleanStr, 1, Len(cleanStr) - 1))
    THEN CountOf(SubSeq(cleanStr, 1, Len(cleanStr) - 1), cleanStr[Len(cleanStr)])
    ELSE IF ~HasMultiplier(cleanStr) /\ IsNumberStr(cleanStr)
    THEN CountOf(cleanStr, "")
    ELSE JsOr(ParseInt(cleanStr), JNull)

ParseInstagramCount(countStr) ==
    IF ~Truthy(countStr) THEN JNull
    ELSE CountOfClean(Lower(Without(countStr.v, {",", " "})))

---------------------------------------------------------------------------
(* og:title patterns of extractProfileData *)

\* the places where /\(@([^)]+)\)/ can match: "(" "@", one or more chunks
\* other than ")", then ")"
AtMatches(s) ==
    { i \in 1..Len(s) :
        /\ i + 3 <= Len(s)
        /\ s[i] = "(" /\ s[i + 1] = "@" /\ s[i + 2] # ")"
        /\ \E j \in (i + 3)..Len(s) : s[j] = ")" }

\* the closing ")" of the match that starts at i
AtMatchEnd(s, i) ==
    CHOOSE j \in (i + 3)..Len(s) : s[j] = ")" /\ \A k \in (i + 3)..(j - 1) : s[k] # ")"

FirstOf(S) == CHOOSE i \in S : \A j \in S : i <= j

\* ogTitle.match(pattern) over usernamePatterns, then
\* match[1].trim().replace('@', ''); NoMatch when neither pattern matches
NoMatch == [t |-> "nomatch"]

\* the chunk standing for the bullet character U+2022 of Instagram's titles
Bullet == "<bullet>"

\* the capture of the match of /\(@([^)]+)\)/ that starts at i
AtCapture(s, i) == SubSeq(s, i + 2, AtMatchEnd(s, i) - 1)

\* the capture of /^([^(bullet]+)/
NamePrefix(s) == PrefixIn(s, { s[i] : i \in 1..Len(s) } \ {"(", Bullet})

UsernameFromTitle(ogTitle) ==
    IF AtMatches(ogTitle) # {}
    THEN Str(RemoveFirst(Trim(AtCapture(ogTitle, FirstOf(AtMatches(ogTitle)))), "@"))
    ELSE IF NamePrefix(ogTitle) # <<>> THEN Str(RemoveFirst(Trim(NamePrefix(ogTitle)), "@"))
    ELSE NoMatch

\* s.replace(/\s*<chunk>.*$/, ''): cut at the whitespace before the first chunk
CutFrom(s, c) ==
    IF ~Has(s, c) THEN s
    ELSE SubSeq(s, 1, WsRunStart(s, FirstOf({ i \in 1..Len(s) : s[i] = c })) - 1)

\* s.replace(/\s*\(@[^)]+\)/, '')
CutMatch(s, i) ==
    SubSeq(s, 1, WsRunStart(s, i) - 1) \o SubSeq(s, AtMatchEnd(s, i) + 1, Len(s))

CutAt(s) == IF AtMatches(s) = {} THEN s ELSE CutMatch(s, FirstOf(AtMatches(s)))

\* the full name cleaned out of og:title (cleanName.trim() || null)
CleanName(ogTitle) ==
    JsOr(Str(Trim(CutFrom(CutAt(CutFrom(ogTitle, Bullet)), "Instagram photos and videos"))),
         JNull)

\* url.split('/').filter(Boolean): the non-empty pieces between slashes
RECURSIVE SplitSlash(_, _)
SplitSlash(s, cur) ==
    IF s = <<>> THEN (IF cur = <<>> THEN <<>> ELSE <<cur>>)
    ELSE IF Head(s) = "/" THEN (IF cur = <<>> THEN <<>> ELSE <<cur>>) \o SplitSlash(Tail(s), <<>>)
    ELSE SplitSlash(Tail(s), cur \o <<Head(s)>>)

\* urlParts[urlParts.length - 1]; undefined when there is no part
LastOf(urlParts) == IF urlParts = <<>> THEN JUndef ELSE Str(urlParts[Len(urlParts)])

LastUrlPart(url) == LastOf(SplitSlash(url, <<>>))

---------------------------------------------------------------------------
(* Extraction from a fetched page (main.js, first script)                  *)
(*                                                                         *)
(* A page is what cheerio and the regular expressions see of it:           *)
(*   title, h1, h2     text of the elements, as chunks                     *)
(*   bodyMarkers       the marker strings the raw body contains            *)
(*   sharedUser        entry_data.ProfilePage[0].graphql.user of           *)
(*                     window._sharedData, or NoUser                       *)
(*   jsonLd            the first parsable ld+json Person object, or        *)
(*                     NoJsonLd                                            *)
(*   ogTitle, ogImage  content of the meta tags (undefined when absent)    *)
(*   ogDescStats       the three captures of the first og:description      *)
(*                     pattern that matches, or NoMatch                    *)
(*   bodyFollowers, bodyFollowing, bodyPosts                               *)
(*                     capture of the first body-text pattern that         *)
(*                     matches, or NoMatch                                 *)
(*   scriptTags        per script tag, the "biography" and "external_url"  *)
(*                     captures and the bio-link matches, in order         *)
(*   keywordBios       per bio keyword found in the body text whose        *)
(*                     pattern matches: the trimmed, collapsed match       *)
(*   htmlUrls          per URL pattern, the first match in the raw html    *)
(*   verifiedSelector  some verification selector matches an element       *)
(*   links             the a[href*="/p/"], a[href*="/reel/"] elements      *)
(***************************************************************************)

NoUser == [t |-> "nouser"]
NoJsonLd == [t |-> "nojsonld"]
NoImg == [t |-> "noimg"]

FollowAction == <<"https://schema.org/FollowAction">>

\* parseInt(v) || null of a JSON value that is a number or absent
ParseIntOrNull(v) == IF v.t = "number" THEN JsOr(v, JNull) ELSE JNull

\* jsonData.interactionStatistic.forEach(...) on an array of statistics
RECURSIVE FollowersFromStats(_, _)
FollowersFromStats(stats, followers) ==
    IF stats = <<>> THEN followers
    ELSE FollowersFromStats(Tail(stats),
            IF Head(stats).interactionType = FollowAction
            THEN JsOr(JsOr(followers, ParseIntOrNull(Head(stats).userInteractionCount)),
                      JNull)
            ELSE followers)

\* extractProfileData throws: forEach is not a function of a truthy
\* interactionStatistic that is no array
ExtractThrows(page) ==
    /\ page.jsonLd # NoJsonLd
    /\ Truthy(page.jsonLd.interactionStatistic)
    /\ page.jsonLd.interactionStatistic.t # "array"

\* STRATEGY 0: window._sharedData
FromUser(user, data) ==
             [data EXCEPT
                !.username = JsOr(user.username, data.username),
                !.fullName = JsOr(user.full_name, data.fullName),
                !.bio = JsOr(user.biography, data.bio),
                !.profileImage = JsOr(JsOr(user.profile_pic_url_hd, user.profile_pic_url),
                                      data.profileImage),
                !.isVerified = JsOr(user.is_verified, data.isVerified),
                !.website = JsOr(user.external_url, data.website),
                !.followers = IF user.followed_by # JUndef THEN user.followed_by
                              ELSE data.followers,
                !.following = IF user.follow # JUndef THEN user.follow ELSE data.following,
                !.postsCount = IF user.media # JUndef THEN user.media ELSE data.postsCount]

FromSharedData(page, data) ==
    IF page.sharedUser = NoUser THEN data ELSE FromUser(page.sharedUser, data)

\* Strategy 1: JSON-LD
FromPerson(jsonData, url, data) ==
             [data EXCEPT
                !.username = JsOr(JsOr(data.username, jsonData.alternateName), jsonData.name),
                !.fullName = JsOr(data.fullName, jsonData.name),
                !.bio = JsOr(data.bio, jsonData.description),
                !.profileImage = JsOr(data.profileImage, jsonData.image),
                !.website = JsOr(data.website,
                                 IF jsonData.url # Str(url) THEN jsonData.url ELSE JNull),
                !.followers = IF Truthy(jsonData.interactionStatistic)
                              THEN FollowersFromStats(jsonData.interactionStatistic.v,
                                                      data.followers)
                              ELSE data.followers]

FromJsonLd(page, url, data) ==
    IF page.jsonLd = NoJsonLd THEN data ELSE FromPerson(page.jsonLd, url, data)

\* Strategy 2: meta tags, and the username out of the URL
\* the username after the og:title patterns (fromTitle) and the URL fallback
UsernameOr(username, fromTitle, url) ==
    IF fromTitle # NoMatch
    THEN (IF ~Truthy(fromTitle) THEN LastUrlPart(url) ELSE fromTitle)
    ELSE (IF ~Truthy(username) THEN LastUrlPart(url) ELSE username)

FromMetaTags(page, url, data) ==
    [data EXCEPT
           !.username = UsernameOr(data.username,
                                   IF ~Truthy(data.username) /\ Truthy(page.ogTitle)
                                   THEN UsernameFromTitle(page.ogTitle.v) ELSE NoMatch,
                                   url),
           !.fullName = IF ~Truthy(data.fullName) /\ Truthy(page.ogTitle)
                        THEN CleanName(page.ogTitle.v) ELSE data.fullName,
           !.profileImage = IF ~Truthy(data.profileImage) /\ Truthy(page.ogImage)
                            THEN page.ogImage ELSE data.profileImage]

\* Strategy 3: the counts of og:description
FromCaptures(match, data) ==
    [data EXCEPT
       !.followers = JsOr(data.followers, ParseInstagramCount(match[1])),
       !.following = JsOr(data.following, ParseInstagramCount(match[2])),
       !.postsCount = JsOr(data.postsCount, ParseInstagramCount(match[3]))]

FromMetaDescription(page, data) ==
    IF page.ogDescStats = NoMatch THEN data ELSE FromCaptures(page.ogDescStats, data)

\* Strategy 4: the counts of the body text, for the counts that are null
FromBodyText(page, data) ==
    [data EXCEPT
       !.followers = IF data.followers = JNull /\ page.bodyFollowers # NoMatch
                     THEN ParseInstagramCount(page.bodyFollowers) ELSE data.followers,
       !.following = IF data.following = JNull /\ page.bodyFollowing # NoMatch
                     THEN ParseInstagramCount(page.bodyFollowing) ELSE data.following,
       !.postsCount = IF data.postsCount = JNull /\ page.bodyPosts # NoMatch
                      THEN ParseInstagramCount(page.bodyPosts) ELSE data.postsCount]

\* the counts left as they are
ZeroKept(data) == data

\* a count of 0 becomes null
ZeroToNull(data) ==
    [data EXCEPT
       !.followers = IF data.followers = Num(0) THEN JNull ELSE data.followers,
       !.following = IF data.following = Num(0) THEN JNull ELSE data.following,
       !.postsCount = IF data.postsCount = Num(0) THEN JNull ELSE data.postsCount]

\* extractProfileData($, url, bodyHtml), when it does not throw
\* const data = {...}
InitialData ==
    [username |-> JNull, fullName |-> JNull, bio |-> JNull,
     profileImage |-> JNull, followers |-> JNull, following |-> JNull,
     postsCount |-> JNull, website |-> JNull, isVerified |-> Bool(FALSE)]

ExtractProfileData(page, url) ==
    ZeroToNull(FromBodyText(page,
        FromMetaDescription(page,
            FromMetaTags(page, url,
                FromJsonLd(page, url,
                    FromSharedData(page, InitialData))))))

---------------------------------------------------------------------------
(* The fallbacks of the request handler *)

\* the first element of the sequence s that satisfies Ok, or none
RECURSIVE FirstWhere(_, _, _)
FirstWhere(s, Ok(_), none) ==
    IF s = <<>> THEN none
    ELSE IF Ok(Head(s)) THEN Head(s)
    ELSE FirstWhere(Tail(s), Ok, none)

\* all "biography" captures of the script tags, in document order
RECURSIVE AllBiographies(_)
AllBiographies(tags) ==
    IF tags = <<>> THEN <<>> ELSE Head(tags).biographies \o AllBiographies(Tail(tags))

\* extractBioFromAnywhere($, bodyHtml)
InScriptBio(b) == b # <<>> /\ StrLen(b) > 3
AroundKeyword(b) == StrLen(b) > 10 /\ StrLen(b) < 500

BioOf(foundBio, bio) ==
    IF foundBio # <<>> THEN Str(foundBio)
    ELSE IF bio # <<>> THEN Str(bio)
    ELSE JNull

ExtractBioFromAnywhere(page) ==
    BioOf(FirstWhere(AllBiographies(page.scriptTags), InScriptBio, <<>>),
          FirstWhere(page.keywordBios, AroundKeyword, <<>>))

\* what Method 1 of extractWebsiteFromAnywhere finds in one script tag
ExternalUrl(u) == u # <<>> /\ ~Has(u, "instagram.com")

UrlOrBioLink(url, tag) ==
    IF url # <<>> THEN url
    ELSE IF tag.bioLinks # <<>> THEN tag.bioLinks[1]
    ELSE <<>>

WebsiteInScript(tag) == UrlOrBioLink(FirstWhere(tag.externalUrls, ExternalUrl, <<>>), tag)

\* extractWebsiteFromAnywhere($, bodyHtml)
HasWebsite(tag) == WebsiteInScript(tag) # <<>>

EmptyTag == [biographies |-> <<>>, externalUrls |-> <<>>, bioLinks |-> <<>>]

ForeignUrl(u) ==
    /\ u # NoMatch
    /\ ~Has(u.v, "instagram.com") /\ ~Has(u.v, "facebook.com")
    /\ ~Has(u.v, "twitter.com")

WebsiteOf(foundWebsite, foundUrl) ==
    IF foundWebsite # <<>> THEN Str(foundWebsite)
    ELSE IF foundUrl # NoMatch THEN foundUrl
    ELSE JNull

ExtractWebsiteFromAnywhere(page) ==
    WebsiteOf(WebsiteInScript(FirstWhere(page.scriptTags, HasWebsite, EmptyTag)),
              FirstWhere(page.htmlUrls, ForeignUrl, NoMatch))

\* detectVerification($, bodyHtml)
DetectVerification(page) ==
    Bool(\/ page.verifiedSelector
         \/ Has(page.h1, "verified") \/ Has(page.h1, "Verified")
         \/ Has(page.h2, "verified") \/ Has(page.h2, "Verified"))

InstagramOrigin == <<"http", "s", ":", "/", "/", "www.", "instagram.com">>

\* extractRecentPosts($, maxPosts): the loop over the matched links, which
\* stops once posts.length >= maxPosts
RECURSIVE RecentPostsLoop(_, _, _)
\* the post with its href as the page gives it
PostOfRawHref(href, img) ==
    [url |-> Str(href), imageUrl |-> img.src, altText |-> JsOr(img.alt, Str(<<>>))]

PostOf(href, img) ==
    [url |-> IF Head(href) = "http" THEN Str(href) ELSE Str(InstagramOrigin \o href),
     imageUrl |-> img.src,
     altText |-> JsOr(img.alt, Str(<<>>))]

\* the loop without its stop at maxPosts
RECURSIVE RecentPostsLoopNoStop(_, _, _)
RecentPostsLoopNoStop(links, maxPosts, posts) ==
    IF links = <<>> THEN posts
    ELSE RecentPostsLoopNoStop(Tail(links), maxPosts,
            IF Head(links).href # <<>> /\ Head(links).img # NoImg
            THEN Append(posts, PostOf(Head(links).href, Head(links).img))
            ELSE posts)

RecentPostsLoop(links, maxPosts, posts) ==
    IF links = <<>> \/ Len(posts) >= maxPosts THEN posts
    ELSE RecentPostsLoop(Tail(links), maxPosts,
            IF Head(links).href # <<>> /\ Head(links).img # NoImg
            THEN Append(posts, PostOf(Head(links).href, Head(links).img))
            ELSE posts)

ExtractRecentPosts(links, maxPosts) == RecentPostsLoop(links, maxPosts, <<>>)

\* $('a[href*="/p/"], a[href*="/reel/"]'): the anchors the selector matches,
\* in document order
IsPostAnchor(a) == Has(a.href, "/p/") \/ Has(a.href, "/reel/")
PostAnchors(anchors) == SelectSeq(anchors, IsPostAnchor)

\* part_001, lines 349-359: the elements of the first post selector that
\* matches anything
InArticle(a) == a.inArticle
HasP(a) == Has(a.href, "/p/")
HasReel(a) == Has(a.href, "/reel/")

PostElements(anchors) ==
    IF SelectSeq(anchors, InArticle) # <<>> THEN SelectSeq(anchors, InArticle)
    ELSE IF SelectSeq(anchors, HasP) # <<>> THEN SelectSeq(anchors, HasP)
    ELSE SelectSeq(anchors, HasReel)

\* part_001, lines 363-375: the first postsToProcess elements, those with a
\* link and an image kept; the browser resolves href against the page
RECURSIVE PlaywrightPostsLoop(_, _, _, _)
PlaywrightPostsLoop(postElements, i, postsToProcess, recentPosts) ==
    IF i > postsToProcess THEN recentPosts
    ELSE PlaywrightPostsLoop(postElements, i + 1, postsToProcess,
            IF postElements[i].href # <<>> /\ postElements[i].img # NoImg
            THEN Append(recentPosts, PostOf(postElements[i].href, postElements[i].img))
            ELSE recentPosts)

Min(a, b) == IF a < b THEN a ELSE b

\* part_001, lines 347-376: recentPosts of the page.evaluate callback
PlaywrightRecentPosts(anchors, maxPostsToScrape) ==
    PlaywrightPostsLoop(PostElements(anchors), 1,
                        Min(Len(PostElements(anchors)), maxPostsToScrape), <<>>)

---------------------------------------------------------------------------
(* The request handler of main.js *)

LoginError ==
    Str(<<"Instagram redirected to login page - profile may be private or blocked">>)
NotFoundError == Str(<<"Profile not found or unavailable">>)
ForEachError == Str(<<"jsonData.interactionStatistic.forEach is not a function">>)
NoError == JNull

\* the error the try block of requestHandler throws on this page, if any
HandlerFailure(page) ==
    IF Has(page.title, "Login") \/ "login_and_signup_page" \in page.bodyMarkers
    THEN LoginError
    ELSE IF \/ "Page Not Found" \in page.bodyMarkers
            \/ Has(page.h2, "Sorry, this page isn't available")
    THEN NotFoundError
    ELSE IF ExtractThrows(page) THEN ForEachError
    ELSE NoError

\* lines 124-132: the ultimate fallbacks
BioFallback(page, profileData) ==
    IF profileData.bio = JNull
    THEN [profileData EXCEPT !.bio = ExtractBioFromAnywhere(page)]
    ELSE profileData

WebsiteFallback(page, profileData) ==
    IF profileData.website = JNull
    THEN [profileData EXCEPT !.website = ExtractWebsiteFromAnywhere(page)]
    ELSE profileData

VerifiedFallback(page, profileData) ==
    IF profileData.isVerified = Bool(FALSE)
    THEN [profileData EXCEPT !.isVerified = DetectVerification(page)]
    ELSE profileData

\* lines 135-137: recent posts, if requested
WithRecentPosts(page, o, profileData) ==
    IF Truthy(o.includeRecentPosts)
    THEN profileData @@
         [recentPosts |-> Arr(ExtractRecentPosts(page.links, o.maxPostsToScrape.v))]
    ELSE profileData

\* lines 140-141: metadata
WithMetadata(url, profileData) ==
    profileData @@ [scrapedAt |-> IsoNow, profileUrl |-> Str(url)]

\* the object the try block pushes when nothing throws
ProfileRecord(page, url, o) ==
    WithMetadata(url,
        WithRecentPosts(page, o,
            VerifiedFallback(page,
                WebsiteFallback(page,
                    BioFallback(page, ExtractProfileData(page, url))))))

\* the error object without its status field
ErrorRecordNoStatus(url, error) ==
    [url |-> Str(url), error |-> error, timestamp |-> IsoNow]

\* the object the catch block pushes
ErrorRecord(url, error) ==
    [url |-> Str(url), error |-> error, timestamp |-> IsoNow, status |-> Str(<<"failed">>)]

\* One invocation of requestHandler({ request, $, body }):
\*   pushed    the records it pushes to the dataset, in order
\*   stepThrew whether a step of the try block threw
\*   threw     whether the handler itself ends with an exception
RequestHandlerNoCatch(page, url, o) ==
    IF HandlerFailure(page) = NoError
    THEN [pushed |-> <<ProfileRecord(page, url, o)>>, stepThrew |-> FALSE, threw |-> FALSE]
    ELSE [pushed |-> <<>>, stepThrew |-> TRUE, threw |-> TRUE]

\* the handler with a catch block that only logs
RequestHandlerSilentCatch(page, url, o) ==
    IF HandlerFailure(page) = NoError
    THEN [pushed |-> <<ProfileRecord(page, url, o)>>, stepThrew |-> FALSE, threw |-> FALSE]
    ELSE [pushed |-> <<>>, stepThrew |-> TRUE, threw |-> FALSE]

RequestHandler(page, url, o) ==
    IF HandlerFailure(page) = NoError
    THEN [pushed |-> <<ProfileRecord(page, url, o)>>, stepThrew |-> FALSE, threw |-> FALSE]
    ELSE [pushed |-> <<ErrorRecord(url, HandlerFailure(page))>>,
          stepThrew |-> TRUE, threw |-> FALSE]

---------------------------------------------------------------------------
(* Pages the crawl may fetch *)

BlankPage ==
    [title |-> <<"Instagram">>, h1 |-> <<>>, h2 |-> <<>>, bodyMarkers |-> {},
     sharedUser |-> NoUser, jsonLd |-> NoJsonLd,
     ogTitle |-> JUndef, ogImage |-> JUndef, ogDescStats |-> NoMatch,
     bodyFollowers |-> NoMatch, bodyFollowing |-> NoMatch, bodyPosts |-> NoMatch,
     scriptTags |-> <<>>, keywordBios |-> <<>>, htmlUrls |-> <<NoMatch, NoMatch>>,
     verifiedSelector |-> FALSE, links |-> <<>>]

LoginTitlePage == [BlankPage EXCEPT !.title = <<"Login", " ", Bullet, " ", "Instagram">>]
LoginBodyPage == [BlankPage EXCEPT !.bodyMarkers = {"login_and_signup_page"}]
NotFoundPage == [BlankPage EXCEPT !.bodyMarkers = {"Page Not Found"}]
UnavailablePage == [BlankPage EXCEPT !.h2 = <<"Sorry, this page isn't available">>]

FullUser ==
    [username |-> Str(<<"natgeo">>), full_name |-> Str(<<"National", " ", "Geographic">>),
     biography |-> Str(<<"Experience the world">>),
     profile_pic_url_hd |-> Str(<<"hd.jpg">>), profile_pic_url |-> Str(<<"pic.jpg">>),
     is_verified |-> Bool(TRUE), external_url |-> Str(<<"http", ":", "/", "/", "on.natgeo.com">>),
     followed_by |-> Num(280), follow |-> Num(0), media |-> Num(29)]

\* link i of a profile grid; every third link holds no image, even ones are relative
PostLink(i) ==
    [href |-> IF i % 2 = 0 THEN <<"/p/", Names[1 + (i % 4)]>>
              ELSE InstagramOrigin \o <<"/reel/", Names[1 + (i % 4)]>>,
     img |-> IF i % 3 = 0 THEN NoImg
             ELSE [src |-> Str(<<"post.jpg">>), alt |-> IF i = 1 THEN JUndef ELSE Str(<<"a post">>)]]

GridLinks == [i \in 1..MaxLinks |-> PostLink(i)]

\* the same grid as the browser sees it, inside the article element
GridLinksInArticle == [i \in 1..MaxLinks |-> PostLink(i) @@ [inArticle |-> TRUE]]

FullPage ==
    [BlankPage EXCEPT
       !.title = <<"National", " ", "Geographic", " ", "(", "@", "natgeo", ")">>,
       !.sharedUser = FullUser,
       !.ogTitle = Str(<<"National", " ", "Geographic", " ", "(", "@", "natgeo", ")", " ",
                         Bullet, " ", "Instagram photos and videos">>),
       !.ogImage = Str(<<"og.jpg">>),
       !.ogDescStats = <<Str(<<"2", "8", "0", "M">>), Str(<<"1", "5", "0">>),
                         Str(<<"2", "9", ",", "1", "0", "0">>)>>,
       !.scriptTags = <<[biographies |-> <<<<"Experience the world">>>>,
                         externalUrls |-> <<<<"http", ":", "/", "/", "on.natgeo.com">>>>,
                         bioLinks |-> <<>>]>>,
       !.verifiedSelector = TRUE,
       !.links = GridLinks]

\* a JSON-LD Person object without description, image and url
PartialJsonLd ==
    [alternateName |-> Str(<<"@", "nasa">>), name |-> JUndef, description |-> JUndef,
     image |-> JUndef, url |-> JUndef,
     interactionStatistic |->
        Arr(<<[interactionType |-> FollowAction, userInteractionCount |-> Num(97)]>>)]

JsonLdPage ==
    [BlankPage EXCEPT !.jsonLd = PartialJsonLd,
                      !.bodyPosts = Str(<<"4", ".", "2", "k">>),
                      !.keywordBios = <<<<"Creator of things and more">>>>,
                      !.links = SubSeq(GridLinks, 1, 1)]

\* interactionStatistic given as one object instead of an array
BrokenJsonLdPage ==
    [BlankPage EXCEPT
       !.jsonLd = [PartialJsonLd EXCEPT
                     !.interactionStatistic =
                        Obj([interactionType |-> FollowAction,
                             userInteractionCount |-> Num(97)])]]

FailingPages == {LoginTitlePage, LoginBodyPage, NotFoundPage, UnavailablePage, BrokenJsonLdPage}
Pages == FailingPages \cup {FullPage, JsonLdPage, BlankPage}

---------------------------------------------------------------------------
(* The top-level script of main.js *)

NoUrlsError ==
    Str(<<"No profile URLs provided. Please add at least one Instagram profile URL.">>)
DestructureError == Str(<<"Cannot destructure property 'profileUrls' of 'input' as it is null.">>)
InvalidUrlError == Str(<<"Invalid URL format">>)
NotInstagramError == Str(<<"Not an Instagram URL">>)

NoOpts == [t |-> "noopts"]
NoPage == [t |-> "nopage"]

\* a destructuring default applies to undefined only
Default(v, d) == IF v = JUndef THEN d ELSE v

\* const { profileUrls = [], ..., maxRetries = 3, includeRecentPosts = false,
\*         maxPostsToScrape = 12 } = input
Destructure(inp) ==
    [profileUrls |-> Default(inp.v.profileUrls, Arr(<<>>)),
     maxRetries |-> Default(inp.v.maxRetries, Num(DefaultMaxRetries)),
     includeRecentPosts |-> Default(inp.v.includeRecentPosts, Bool(FALSE)),
     maxPostsToScrape |-> Default(inp.v.maxPostsToScrape, Num(DefaultMaxPostsToScrape))]

\* !profileUrls || profileUrls.length === 0
NoProfileUrls(o) == ~Truthy(o.profileUrls) \/ Len(o.profileUrls.v) = 0

\* the url of one entry of profileUrls, or the error the callback throws
Validated(url) ==
    IF url = JUndef THEN [error |-> InvalidUrlError]
    ELSE IF ~HasPair(url.v, "instagram.com", "/") THEN [error |-> NotInstagramError]
    ELSE [error |-> NoError, url |-> url.v]

EntryUrl(urlInput) ==
    Validated(IF urlInput.t = "string" THEN urlInput
              ELSE IF urlInput.t = "object" /\ Truthy(urlInput.v.url) THEN urlInput.v.url
              ELSE JUndef)

\* url.replace(/\/$/, ''), then 'https://' in front unless it starts with 'http'
StripSlash(url) ==
    IF url # <<>> /\ url[Len(url)] = "/" THEN SubSeq(url, 1, Len(url) - 1) ELSE url

EnsureScheme(url) ==
    IF url # <<>> /\ Head(url) = "http" THEN url ELSE <<"http", "s", ":", "/", "/">> \o url

NormalizeUrl(url) == EnsureScheme(StripSlash(url))

\* profileUrls.map(...): the error of the first entry that throws, if any
BadIndexes(urls) == { i \in 1..Len(urls) : EntryUrl(urls[i]).error # NoError }

PrepareError(urls) ==
    IF BadIndexes(urls) = {} THEN NoError ELSE EntryUrl(urls[FirstOf(BadIndexes(urls))]).error

PrepareRequests(urls) ==
    [i \in 1..Len(urls) |-> [url |-> NormalizeUrl(EntryUrl(urls[i]).url)]]

Init ==
    /\ input \in Inputs
    /\ pc = "start"
    /\ err = NoError
    /\ opts = NoOpts
    /\ requests = <<>>
    /\ req = <<>>
    /\ dataset = <<>>
    /\ calls = <<>>
    /\ script = "main.js"
    /\ arg = JNull /\ res = JNull /\ op = "none"

\* lines 28-40: read the input, destructure it, validate profileUrls
ReadInput ==
    /\ pc = "start"
    /\ IF input = JNull
       THEN pc' = "threw" /\ err' = DestructureError /\ opts' = opts
       ELSE /\ opts' = Destructure(input)
            /\ IF NoProfileUrls(Destructure(input))
               THEN pc' = "threw" /\ err' = NoUrlsError
               ELSE pc' = "validated" /\ err' = err
    /\ UNCHANGED <<input, requests, req, dataset, calls, script, arg, res, op>>

\* the entries of the list that URL preparation accepts
RECURSIVE AcceptedEntries(_)
AcceptedEntries(urls) ==
    IF urls = <<>> THEN <<>>
    ELSE (IF EntryUrl(Head(urls)).error = NoError THEN <<Head(urls)>> ELSE <<>>)
         \o AcceptedEntries(Tail(urls))

\* URL preparation that leaves the bad entries out instead of throwing
PrepareUrlsLenient ==
    /\ pc = "validated"
    /\ pc' = "prepared" /\ err' = err
    /\ requests' = PrepareRequests(AcceptedEntries(opts.profileUrls.v))
    /\ UNCHANGED <<input, opts, req, dataset, calls, script, arg, res, op>>

\* lines 547-569: prepare the request list; one bad entry throws
PrepareUrls ==
    /\ pc = "validated"
    /\ IF PrepareError(opts.profileUrls.v) # NoError
       THEN pc' = "threw" /\ err' = PrepareError(opts.profileUrls.v) /\ requests' = requests
       ELSE pc' = "prepared" /\ err' = err /\ requests' = PrepareRequests(opts.profileUrls.v)
    /\ UNCHANGED <<input, opts, req, dataset, calls, script, arg, res, op>>

---------------------------------------------------------------------------
(* The crawl: new CheerioCrawler({...}) and crawler.run(requests) *)

Urls == DOMAIN req

InFlight == { u \in Urls : req[u].status \in {"fetching", "handling"} }

\* maxRequestRetries: maxRetries
MaxRequestRetries == opts.maxRetries.v

\* a request whose attempt failed is queued again until its retries are
\* used up; then failedRequestHandler logs it and the request is dropped
AfterError(r) ==
    IF r.retryCount < MaxRequestRetries
    THEN [status |-> "pending", retryCount |-> r.retryCount + 1, page |-> NoPage]
    ELSE [status |-> "failed", retryCount |-> r.retryCount, page |-> NoPage]

\* line 575: crawler.run(requests) enqueues the requests, one per unique url
RunCrawler ==
    /\ pc = "prepared"
    /\ pc' = "running"
    /\ req' = [u \in { requests[i].url : i \in 1..Len(requests) } |->
                 [status |-> "pending", retryCount |-> 0, page |-> NoPage]]
    /\ UNCHANGED <<input, err, opts, requests, dataset, calls, script, arg, res, op>>

\* the crawler takes a pending request while fewer than maxConcurrency are
\* in flight, runs the pre-navigation hook and sends the request
StartFetch(u) ==
    /\ pc = "running"
    /\ req[u].status = "pending"
    /\ Cardinality(InFlight) < CrawlerMaxConcurrency
    /\ req' = [req EXCEPT ![u].status = "fetching"]
    /\ UNCHANGED <<input, pc, err, opts, requests, dataset, calls, script, arg, res, op>>

\* the response arrives and is parsed: the handler is about to run on it
FetchOk(u, page) ==
    /\ pc = "running"
    /\ req[u].status = "fetching"
    /\ req' = [req EXCEPT ![u].status = "handling", ![u].page = page]
    /\ UNCHANGED <<input, pc, err, opts, requests, dataset, calls, script, arg, res, op>>

\* the fetch fails (timeout, network or proxy error, blocked or 5xx status)
FetchFail(u) ==
    /\ pc = "running"
    /\ req[u].status = "fetching"
    /\ req' = [req EXCEPT ![u] = AfterError(req[u])]
    /\ UNCHANGED <<input, pc, err, opts, requests, dataset, calls, script, arg, res, op>>

\* the effect of a handler invocation that ended with outcome out
Handled(u, out) ==
    /\ dataset' = dataset \o out.pushed
    /\ calls' = Append(calls, [url |-> u, page |-> req[u].page, stepThrew |-> out.stepThrew,
                               threw |-> out.threw, pushed |-> out.pushed])
    /\ req' = [req EXCEPT ![u] =
                 IF out.threw THEN AfterError(req[u])
                 ELSE [status |-> "handled", retryCount |-> req[u].retryCount,
                       page |-> NoPage]]

\* a handler that reads the page from a variable all invocations share: it
\* runs on the page of any request that is being handled
HandleSharedPage(u) ==
    /\ pc = "running"
    /\ req[u].status = "handling"
    /\ \E v \in Urls :
          /\ req[v].status = "handling"
          /\ Handled(u, RequestHandler(req[v].page, u, opts))
    /\ UNCHANGED <<input, pc, err, opts, requests, script, arg, res, op>>

\* lines 97-159: requestHandler runs on the page; an exception it ends with
\* makes the crawler treat the attempt as failed
Handle(u) ==
    /\ pc = "running"
    /\ req[u].status = "handling"
    /\ Handled(u, RequestHandler(req[u].page, u, opts))
    /\ UNCHANGED <<input, pc, err, opts, requests, script, arg, res, op>>

\* lines 575-578: crawler.run resolves once no request is left, the actor exits
Finish ==
    /\ pc = "running"
    /\ \A u \in Urls : req[u].status \in {"handled", "failed"}
    /\ pc' = "exited"
    /\ UNCHANGED <<input, err, opts, requests, req, dataset, calls, script, arg, res, op>>

Next ==
    \/ ReadInput
    \/ PrepareUrls
    \/ RunCrawler
    \/ \E u \in Urls : StartFetch(u)
    \/ \E u \in Urls, page \in Pages : FetchOk(u, page)
    \/ \E u \in Urls : FetchFail(u)
    \/ \E u \in Urls : Handle(u)
    \/ Finish

Spec == Init /\ [][Next]_vars

---------------------------------------------------------------------------
(* The request handlers of the other scripts                               *)
(*                                                                         *)
(* main.js holds three versions of the Cheerio script (from lines 1, 579   *)
(* and 1162), part_002 two (from lines 1 and 675), part_003 a Cheerio      *)
(* script and a Playwright script (from line 386), part_001 a Playwright   *)
(* script.  A script is named by its file and the line it starts at.       *)

CheerioScripts ==
    {"main.js", "main.js:579", "main.js:1162", "part_002", "part_002:675", "part_003"}
PlaywrightScripts == {"part_001", "part_003:386"}
Scripts == CheerioScripts \cup PlaywrightScripts

\* main.js 681-684 and 1502-1505, part_002 105-107:
\* profileData.bio = profileData.bio || extractBioFromAnywhere($, body), ...
OrFallbacks(page, profileData) ==
    [profileData EXCEPT
       !.bio = JsOr(profileData.bio, ExtractBioFromAnywhere(page)),
       !.website = JsOr(profileData.website, ExtractWebsiteFromAnywhere(page)),
       !.isVerified = JsOr(profileData.isVerified, DetectVerification(page))]

\* the object the try block of a Cheerio script pushes
CheerioProfileRecord(s, page, url, o) ==
    CASE s = "main.js" -> ProfileRecord(page, url, o)
      [] s \in {"main.js:579", "main.js:1162", "part_002"} ->
            WithMetadata(url, WithRecentPosts(page, o,
                OrFallbacks(page, ExtractProfileData(page, url))))
      [] OTHER ->
            WithMetadata(url, WithRecentPosts(page, o, ExtractProfileData(page, url)))

\* one invocation of the requestHandler of a Cheerio script
CheerioHandler(s, page, url, o) ==
    IF HandlerFailure(page) = NoError
    THEN <<CheerioProfileRecord(s, page, url, o)>>
    ELSE <<ErrorRecord(url, HandlerFailure(page))>>

\* What the selectors of page.evaluate find in the rendered document: the
\* text of the first match of each field, the counts as written, the anchors.
BlankDom ==
    [title |-> <<"Instagram">>, h1 |-> JNull, fullName |-> JNull, bio |-> JNull,
     profileImage |-> JNull, followers |-> JNull, following |-> JNull,
     postsCount |-> JNull, website |-> JNull, isVerified |-> FALSE, anchors |-> <<>>]

FullDom ==
    [title |-> <<"National", " ", "Geographic", " ", "(", "@", "natgeo", ")">>,
     h1 |-> Str(<<"natgeo">>), fullName |-> Str(<<"National", " ", "Geographic">>),
     bio |-> Str(<<"Experience the world">>), profileImage |-> Str(<<"pic.jpg">>),
     followers |-> Str(<<"2", "8", "0", "m">>), following |-> Str(<<"1", "5", "0">>),
     postsCount |-> Str(<<"2", "9", ",", "1", "0", "0">>),
     website |-> Str(<<"http", ":", "/", "/", "on.natgeo.com">>), isVerified |-> TRUE,
     anchors |-> GridLinksInArticle]

Doms == {BlankDom, FullDom}

\* part_001 229-392, part_003 591-737: the object page.evaluate returns
Evaluated(dom, url, o) ==
    [username |-> IF dom.h1 # JNull THEN dom.h1 ELSE JsOr(LastUrlPart(url), JNull),
     fullName |-> dom.fullName, bio |-> dom.bio, profileImage |-> dom.profileImage,
     followers |-> dom.followers, following |-> dom.following,
     postsCount |-> dom.postsCount, website |-> dom.website,
     isVerified |-> Bool(dom.isVerified),
     recentPosts |-> IF Truthy(o.includeRecentPosts)
                     THEN Arr(PlaywrightRecentPosts(dom.anchors, o.maxPostsToScrape.v))
                     ELSE Arr(<<>>),
     profileUrl |-> Str(url), scrapedAt |-> IsoNow]

\* part_001 490-514: calculateExtractionConfidence(data), in halves of a point
Present(data, field) == data[field] # JNull /\ data[field] # JUndef
CountPresent(data, fields) == Cardinality({ f \in fields : Present(data, f) })

\* Math.round((score / maxScore) * 100) for required fields present of four
\* and optional fields present of four: score is 17.5 and 7.5 a field,
\* maxScore 100; in doubles (57.5 / 100) * 100 is 57.49999999999999, every
\* other quotient comes back exact, and Math.round takes halves upwards
RoundedScore(required, optional) ==
    IF required = 2 /\ optional = 3 THEN 57
    ELSE (35 * required + 15 * optional + 1) \div 2

CalculateExtractionConfidence(data) ==
    Num(RoundedScore(
            CountPresent(data, {"username", "followers", "following", "postsCount"}),
            CountPresent(data, {"fullName", "bio", "profileImage", "website"})))

\* part_001 395-402: cleanedData
CleanedData(profileData) ==
    [profileData EXCEPT
       !.followers = IF Truthy(profileData.followers)
                     THEN ParseInstagramCount(profileData.followers) ELSE JNull,
       !.following = IF Truthy(profileData.following)
                     THEN ParseInstagramCount(profileData.following) ELSE JNull,
       !.postsCount = IF Truthy(profileData.postsCount)
                      THEN ParseInstagramCount(profileData.postsCount) ELSE JNull]
    @@ [extractionConfidence |-> CalculateExtractionConfidence(profileData)]

\* part_003 740-745: cleanedData, the page title kept
CleanedDataWithTitle(profileData, dom) ==
    [profileData EXCEPT
       !.followers = ParseInstagramCount(profileData.followers),
       !.following = ParseInstagramCount(profileData.following),
       !.postsCount = ParseInstagramCount(profileData.postsCount)]
    @@ [pageTitle |-> Str(dom.title)]

TimeoutError == Str(<<"page.goto: Timeout 30000ms exceeded.">>)
ContentError == Str(<<"Main content did not load within timeout">>)
BlockedError == Str(<<"Got blocked with status 429">>)
ClosedError == Str(<<"page.waitForTimeout: Target page, context or browser has been closed">>)

\* part_001 413-420: the object the catch block of part_001 pushes
PlaywrightErrorRecord(url, error, retryCount) ==
    [url |-> Str(url), error |-> error,
     errorType |-> IF error = TimeoutError THEN Str(<<"TimeoutError">>) ELSE Str(<<"Error">>),
     scrapedAt |-> IsoNow, status |-> Str(<<"failed">>), retryCount |-> Num(retryCount)]

\* how an attempt of a Playwright handler goes: to its end, or up to an
\* exception of page.goto, of the content or status check, or of the wait
\* that follows the push in part_003
Outcomes(s) ==
    IF s = "part_001" THEN {NoError, TimeoutError, ContentError}
    ELSE {NoError, TimeoutError, BlockedError, ClosedError}

\* one invocation of the requestHandler of a Playwright script
PlaywrightHandler(s, dom, url, o, outcome, retryCount) ==
    IF s = "part_001"
    THEN IF outcome = NoError
         THEN <<CleanedData(Evaluated(dom, url, o))>>
         ELSE <<PlaywrightErrorRecord(url, outcome, retryCount)>>
    ELSE IF outcome = NoError
         THEN <<CleanedDataWithTitle(Evaluated(dom, url, o), dom)>>
         ELSE IF outcome = ClosedError
         THEN <<CleanedDataWithTitle(Evaluated(dom, url, o), dom), ErrorRecord(url, outcome)>>
         ELSE <<ErrorRecord(url, outcome)>>

---------------------------------------------------------------------------
(* Records of the dataset *)

IsErrorRecord(r) == "error" \in DOMAIN r
IsProfileRecord(r) == ~IsErrorRecord(r)

\* the request a record is about
RecordUrl(r) == IF "url" \in DOMAIN r THEN r.url.v ELSE r.profileUrl.v

HasRecord(u) == \E i \in DOMAIN dataset : RecordUrl(dataset[i]) = u
HasErrorRecord(u) ==
    \E i \in DOMAIN dataset : IsErrorRecord(dataset[i]) /\ RecordUrl(dataset[i]) = u

WasHandled(u) == \E i \in DOMAIN calls : calls[i].url = u

TwelveFields ==
    {"username", "fullName", "bio", "profileImage", "followers", "following",
     "postsCount", "website", "isVerified", "recentPosts", "profileUrl", "scrapedAt"}

\* the fields the input selects, the schema default when none are given
SelectedFields ==
    IF input.v.outputFormat = JUndef
    THEN { DefaultOutputFormat[i] : i \in DOMAIN DefaultOutputFormat }
    ELSE { input.v.outputFormat.v[i] : i \in DOMAIN input.v.outputFormat.v }

\* the maxConcurrency of the input, the schema default when it is not given
InputMaxConcurrency ==
    IF input.v.maxConcurrency = JUndef THEN SchemaDefaultMaxConcurrency
    ELSE input.v.maxConcurrency.v

---------------------------------------------------------------------------
(* Properties of a run of main.js *)

\* C1: every request failure (login redirect, not found, timeout or fetch
\* failure that exhausts the retries) is written as an error record: when
\* the run ends, each distinct input URL has a profile record or an error
\* record in the dataset.
EveryUrlHasRecord ==
    pc = "exited" => \A u \in Urls : HasRecord(u)

\* C2: the run continues after a failure: no failure of a handler reaches
\* the crawler, and when the run ends every URL that was fetched has been
\* handled to its end, whichever other URLs failed in the handler; the only
\* requests given up are those no attempt of which fetched a page.
RunContinuesAfterFailure ==
    /\ \A i \in DOMAIN calls : ~calls[i].threw
    /\ pc = "running" =>
          \A u \in Urls : WasHandled(u) => req[u].status = "handled"
    /\ pc = "exited" =>
          \A u \in Urls : \/ req[u].status = "handled" /\ WasHandled(u)
                          \/ req[u].status = "failed" /\ ~WasHandled(u)

\* the run ended with a URL handled after the handling of another one failed
HandledAfterFailure ==
    /\ pc = "exited"
    /\ \E i, j \in DOMAIN calls :
          /\ i < j
          /\ calls[i].stepThrew
          /\ calls[j].url # calls[i].url
          /\ ~calls[j].stepThrew
          /\ req[calls[j].url].status = "handled"

\* C4: each invocation of requestHandler pushes exactly one record: a
\* profile record if no step threw, otherwise an error record for the same
\* URL; never both, never none.
OneRecordPerInvocation ==
    \A i \in DOMAIN calls :
        /\ Len(calls[i].pushed) = 1
        /\ RecordUrl(calls[i].pushed[1]) = calls[i].url
        /\ calls[i].stepThrew <=> IsErrorRecord(calls[i].pushed[1])

\* one invocation pushed a profile record and another one an error record
BothKindsPushed ==
    \E i, j \in DOMAIN calls :
        /\ calls[i].stepThrew /\ IsErrorRecord(calls[i].pushed[1])
        /\ ~calls[j].stepThrew /\ IsProfileRecord(calls[j].pushed[1])

\* C5: every profile record contains all twelve fields username, fullName,
\* bio, profileImage, followers, following, postsCount, website, isVerified,
\* recentPosts, profileUrl and scrapedAt, and none of them is undefined.
ProfileRecordComplete ==
    \A i \in DOMAIN dataset :
        IsProfileRecord(dataset[i]) =>
            /\ DOMAIN dataset[i] = TwelveFields
            /\ \A f \in DOMAIN dataset[i] : dataset[i][f] # JUndef

\* C6: a request whose processing fails, a login redirect or a not-found
\* page detected by the handler included, is attempted again up to
\* maxRetries times before it is reported as failed: a URL with an error
\* record has used all its retries.
FailedAfterAllRetries ==
    \A u \in Urls : HasErrorRecord(u) => req[u].retryCount = MaxRequestRetries

\* C7: every profile record contains exactly the fields listed in
\* outputFormat (by default username, fullName, bio, followers, following,
\* postsCount, isVerified).
OnlySelectedFields ==
    \A i \in DOMAIN dataset :
        IsProfileRecord(dataset[i]) => DOMAIN dataset[i] = SelectedFields

\* C8: at every moment the number of requests being fetched or handled is at
\* most the maxConcurrency of the input (schema default 1).
WithinInputConcurrency ==
    pc = "running" => Cardinality(InFlight) <= InputMaxConcurrency

\* C10: for every input in which profileUrls is absent or empty, the case of
\* no input object included, the script stops with the error 'No profile
\* URLs provided...' before any request is made and pushes no record.
NoUrlsStopsWithMessage ==
    (pc # "start" /\ (input = JNull \/ input.v.profileUrls \in {JUndef, JNull, Arr(<<>>)}))
        => /\ pc = "threw" /\ err = NoUrlsError
           /\ req = <<>> /\ dataset = <<>>

---------------------------------------------------------------------------
(* The handlers of all the scripts, one invocation after another *)

ScriptOptions ==
    { [includeRecentPosts |-> Bool(FALSE), maxPostsToScrape |-> Num(DefaultMaxPostsToScrape)] }
    \cup { [includeRecentPosts |-> Bool(TRUE), maxPostsToScrape |-> Num(k)]
           : k \in 1..MaxPostsIn }

ScriptUrls == { NormalizeUrl(FullUrl(Names[i])) : i \in 1..MaxUrls }

InitScripts ==
    /\ script \in Scripts
    /\ opts \in ScriptOptions
    /\ req = [u \in ScriptUrls |-> [status |-> "pending", retryCount |-> 0, page |-> NoPage]]
    /\ dataset = <<>>
    /\ pc = "running"
    /\ input = JNull /\ err = NoError /\ requests = <<>> /\ calls = <<>>
    /\ arg = JNull /\ res = JNull /\ op = "none"

\* the requestHandler of a Cheerio script runs on the page fetched for u
CheerioHandle(u, page) ==
    /\ pc = "running"
    /\ script \in CheerioScripts
    /\ req[u].status = "pending"
    /\ dataset' = dataset \o CheerioHandler(script, page, u, opts)
    /\ req' = [req EXCEPT ![u].status = "handled"]
    /\ UNCHANGED <<input, pc, err, opts, requests, calls, script, arg, res, op>>

\* the requestHandler of a Playwright script runs for u
PlaywrightHandle(u, dom, outcome) ==
    /\ pc = "running"
    /\ script \in PlaywrightScripts
    /\ req[u].status = "pending"
    /\ outcome \in Outcomes(script)
    /\ dataset' = dataset \o PlaywrightHandler(script, dom, u, opts, outcome, req[u].retryCount)
    /\ req' = [req EXCEPT ![u].status = "handled"]
    /\ UNCHANGED <<input, pc, err, opts, requests, calls, script, arg, res, op>>

NextScripts ==
    \/ \E u \in Urls, page \in Pages : CheerioHandle(u, page)
    \/ \E u \in Urls, dom \in Doms,
          outcome \in {NoError, TimeoutError, ContentError, BlockedError, ClosedError} :
            PlaywrightHandle(u, dom, outcome)
    \/ Finish

SpecScripts == InitScripts /\ [][NextScripts]_vars

ErrorFields == {"url", "error", "timestamp", "status"}
PlaywrightErrorFields == {"url", "error", "errorType", "scrapedAt", "status", "retryCount"}

\* C3 as stated: every record written by any of the scripts is a profile
\* record or an error record with exactly the fields url, error, timestamp
\* and status, status always 'failed'; a profile record never carries an
\* error or a status field.
TwoShapes ==
    \A i \in DOMAIN dataset :
        \/ /\ DOMAIN dataset[i] = ErrorFields
           /\ dataset[i].status = Str(<<"failed">>)
        \/ DOMAIN dataset[i] \cap {"error", "status"} = {}

\* C3 as amended: every record written by any of the scripts is a profile
\* record, which carries neither an error nor a status field, or an error
\* record with status 'failed' whose fields are exactly url, error,
\* timestamp and status in every script but part_001, and exactly url,
\* error, errorType, scrapedAt, status and retryCount in part_001.
TwoShapesByScript ==
    \A i \in DOMAIN dataset :
        \/ /\ DOMAIN dataset[i] =
                 (IF script = "part_001" THEN PlaywrightErrorFields ELSE ErrorFields)
           /\ dataset[i].status = Str(<<"failed">>)
        \/ DOMAIN dataset[i] \cap {"error", "status"} = {}

\* part_001 has written a profile record and an error record
BothShapesOfPlaywright ==
    /\ script = "part_001"
    /\ \E i, j \in DOMAIN dataset :
          /\ DOMAIN dataset[i] = PlaywrightErrorFields
          /\ "extractionConfidence" \in DOMAIN dataset[j]

---------------------------------------------------------------------------
(* The post extractors on their own: every grid of anchors, every limit *)

\* an anchor of the page: its href, its first image, whether it sits in the
\* article grid
AnchorKinds ==
    { [href |-> <<"/p/", "a">>, img |-> [src |-> Str(<<"post.jpg">>), alt |-> Str(<<"a post">>)],
       inArticle |-> TRUE],
      [href |-> InstagramOrigin \o <<"/reel/", "b">>,
       img |-> [src |-> Str(<<"reel.jpg">>), alt |-> JUndef], inArticle |-> FALSE],
      [href |-> <<"/p/", "c">>, img |-> NoImg, inArticle |-> FALSE],
      [href |-> <<>>, img |-> [src |-> Str(<<"tile.jpg">>), alt |-> JUndef],
       inArticle |-> TRUE],
      [href |-> <<"/reel/", "d">>, img |-> [src |-> Str(<<"reel.jpg">>), alt |-> Str(<<>>)],
       inArticle |-> FALSE] }

AnchorLists == UNION { [1..n -> AnchorKinds] : n \in 0..MaxLinks }

InitPosts ==
    /\ arg \in [anchors : AnchorLists, maxPosts : 1..MaxPostsIn]
    /\ res = JNull /\ op = "none"
    /\ input = JNull /\ pc = "posts" /\ err = NoError /\ opts = NoOpts
    /\ requests = <<>> /\ req = <<>> /\ dataset = <<>> /\ calls = <<>>
    /\ script = "none"

\* main.js: extractRecentPosts($, maxPostsToScrape)
CheerioPosts ==
    /\ op = "none"
    /\ op' = "main.js"
    /\ res' = Arr(ExtractRecentPosts(PostAnchors(arg.anchors), arg.maxPosts))
    /\ UNCHANGED <<runVars, script, arg>>

\* part_001: the recentPosts the page.evaluate callback returns
PlaywrightPosts ==
    /\ op = "none"
    /\ op' = "part_001"
    /\ res' = Arr(PlaywrightRecentPosts(arg.anchors, arg.maxPosts))
    /\ UNCHANGED <<runVars, script, arg>>

NextPosts == CheerioPosts \/ PlaywrightPosts

SpecPosts == InitPosts /\ [][NextPosts]_vars

\* C9: maxPostsToScrape limits the posts per profile: the recentPosts array
\* the Cheerio extractor of main.js returns, and the one the Playwright
\* extractor of part_001 returns, never has more than maxPostsToScrape
\* entries, for every page and every limit of the range.
PostsWithinLimit ==
    op \in {"main.js", "part_001"} => Len(res.v) <= arg.maxPosts

\* the page holds more posts than the limit and the extractor stopped at it
PostsCutAtLimit ==
    /\ op = "main.js"
    /\ Len(RecentPostsLoopNoStop(PostAnchors(arg.anchors), arg.maxPosts, <<>>)) > arg.maxPosts
    /\ Len(res.v) = arg.maxPosts

---------------------------------------------------------------------------
(* The pre-navigation hook of main.js on its own *)

\* minDelay and maxDelay of the input schema, in milliseconds
SchemaMinDelayMinimum == 5000
SchemaMinDelayDefault == 8000
SchemaMinDelayMaximum == 30000
SchemaMaxDelayMinimum == 10000
SchemaMaxDelayDefault == 15000
SchemaMaxDelayMaximum == 45000

\* Math.random() * 3000 + 2000
HookDelayBase == 2000
HookDelaySpan == 3000

\* Math.random() takes the values k / RandomSteps, k in 0 .. RandomSteps - 1
RandomSteps == 8

\* schema-valid values of the two options, undefined when the input has none
DelayInputs ==
    [minDelay : {JUndef, Num(SchemaMinDelayMinimum), Num(SchemaMinDelayMaximum)},
     maxDelay : {JUndef, Num(SchemaMaxDelayMinimum), Num(SchemaMaxDelayMaximum)},
     random : 0..(RandomSteps - 1)]

\* the delay of the hook in whole milliseconds, for Math.random() = k / RandomSteps
HookDelay(k) == (k * HookDelaySpan) \div RandomSteps + HookDelayBase

InitDelay ==
    /\ arg \in DelayInputs
    /\ res = JNull /\ op = "none"
    /\ input = JNull /\ pc = "delay" /\ err = NoError /\ opts = NoOpts
    /\ requests = <<>> /\ req = <<>> /\ dataset = <<>> /\ calls = <<>>
    /\ script = "main.js"

\* main.js 84-94: the hook draws its delay and waits
PreNavigationHook ==
    /\ pc = "delay"
    /\ op = "none"
    /\ op' = "preNavigationHook"
    /\ res' = Num(HookDelay(arg.random))
    /\ UNCHANGED <<runVars, script, arg>>

NextDelay == PreNavigationHook

SpecDelay == InitDelay /\ [][NextDelay]_vars

\* the bounds the input configures, the schema defaults when it gives none
ConfiguredMinDelay ==
    IF arg.minDelay = JUndef THEN SchemaMinDelayDefault ELSE arg.minDelay.v
ConfiguredMaxDelay ==
    IF arg.maxDelay = JUndef THEN SchemaMaxDelayDefault ELSE arg.maxDelay.v

\* C11: the delay main.js inserts before each request respects the
\* configured bounds: for every schema-valid input the pre-navigation delay
\* in milliseconds is at least minDelay and at most maxDelay.
DelayWithinConfiguredBounds ==
    op = "preNavigationHook" =>
        ConfiguredMinDelay <= res.v /\ res.v <= ConfiguredMaxDelay

---------------------------------------------------------------------------
(* The try block of the main.js request handler, applied to one page *)

\* a user object of window._sharedData whose optional values are empty
QuietUser ==
    [username |-> Str(<<"natgeo">>), full_name |-> Str(<<>>), biography |-> Str(<<>>),
     profile_pic_url_hd |-> JUndef, profile_pic_url |-> Str(<<"pic.jpg">>),
     is_verified |-> Bool(FALSE), external_url |-> JNull,
     followed_by |-> Num(0), follow |-> Num(0), media |-> Num(0)]

\* a JSON-LD Person object with every property the script reads
FullJsonLd ==
    [alternateName |-> Str(<<"@", "nasa">>), name |-> Str(<<"NASA">>),
     description |-> Str(<<"Exploring the universe">>),
     image |-> Str(<<"ld.jpg">>), url |-> Str(<<"http", "s", ":", "/", "/", "nasa.gov">>),
     interactionStatistic |->
        Arr(<<[interactionType |-> FollowAction, userInteractionCount |-> Num(97)]>>)]

WithMeta(page) ==
    [page EXCEPT
       !.ogTitle = Str(<<"NASA", " ", "(", "@", "nasa", ")", " ", Bullet, " ",
                         "Instagram photos and videos">>),
       !.ogImage = Str(<<"og.jpg">>),
       !.ogDescStats = <<Str(<<"2", "8", "0", "M">>), Str(<<"1", "5", "0">>), Str(<<"0">>)>>]

\* og:title without a name in it
WithEmptyTitle(page) == [page EXCEPT !.ogTitle = Str(<<" ", Bullet, " ", "Instagram">>)]

WithBodyStats(page) ==
    [page EXCEPT !.bodyFollowers = Str(<<"1", ".", "2", "k">>),
                 !.bodyFollowing = Str(<<"0">>),
                 !.bodyPosts = Str(<<"1", ".", "2", ".", "5">>)]

WithFallbackSources(page) ==
    [page EXCEPT
       !.scriptTags = <<[biographies |-> <<<<"Space agency">>>>,
                         externalUrls |-> <<<<"http", ":", "/", "/", "go.nasa.gov">>>>,
                         bioLinks |-> <<>>]>>,
       !.keywordBios = <<<<"Creator of things and more">>>>,
       !.verifiedSelector = TRUE]

MetaVariants(page) == {page, WithMeta(page), WithEmptyTitle(page)}
BodyVariants(page) == {page, WithBodyStats(page)}
FallbackVariants(page) == {page, WithFallbackSources(page)}

ProfilePages ==
    UNION { UNION { UNION { FallbackVariants(b) : b \in BodyVariants(m) }
                    : m \in MetaVariants([BlankPage EXCEPT !.sharedUser = su, !.jsonLd = jl]) }
            : su \in {NoUser, FullUser, QuietUser},
              jl \in {NoJsonLd, PartialJsonLd, FullJsonLd} }

\* the request urls: accepted entries of profileUrls, as URL preparation leaves them
RootUrl == <<"http", "s", ":", "/", "/", "www.", "instagram.com", "/">>
RequestUrls == { NormalizeUrl(FullUrl(Names[1])), NormalizeUrl(BareUrl(Names[2])),
                 NormalizeUrl(RootUrl) }

InitExtract ==
    /\ arg \in [page : ProfilePages, url : RequestUrls, options : {NoOptions}]
    /\ pc = "handler"
    /\ script = "main.js"
    /\ res = JNull /\ op = "none"
    /\ input = JNull /\ err = NoError /\ opts = NoOpts /\ requests = <<>>
    /\ req = <<>> /\ dataset = <<>> /\ calls = <<>>

\* lines 117-145: extractProfileData, the fallbacks, the metadata
TryBlock ==
    /\ pc = "handler"
    /\ op = "none"
    /\ res' = ProfileRecord(arg.page, arg.url, arg.options)
    /\ op' = "requestHandler"
    /\ UNCHANGED <<runVars, script, arg>>

NextExtract == TryBlock

SpecExtract == InitExtract /\ [][NextExtract]_vars

\* a count of window._sharedData as the record may show it
KeptCount(count, emitted) ==
    count # JUndef => emitted = count \/ (count = Num(0) /\ emitted = JNull)

\* C13: whatever window._sharedData supplies for a field (a non-empty string,
\* a boolean is_verified, a count) is the value of that field in the emitted
\* record; no lower-priority strategy or fallback heuristic replaces it.
SharedDataKept ==
    (op = "requestHandler" /\ arg.page.sharedUser # NoUser) =>
        /\ Truthy(arg.page.sharedUser.username) => res.username = arg.page.sharedUser.username
        /\ Truthy(arg.page.sharedUser.full_name) => res.fullName = arg.page.sharedUser.full_name
        /\ Truthy(arg.page.sharedUser.biography) => res.bio = arg.page.sharedUser.biography
        /\ Truthy(arg.page.sharedUser.external_url)
              => res.website = arg.page.sharedUser.external_url
        /\ arg.page.sharedUser.is_verified.t = "boolean"
              => res.isVerified = arg.page.sharedUser.is_verified
        /\ KeptCount(arg.page.sharedUser.followed_by, res.followers)
        /\ KeptCount(arg.page.sharedUser.follow, res.following)
        /\ KeptCount(arg.page.sharedUser.media, res.postsCount)


\* a field for which extractProfileData found nothing
Missing(v) == v \in {JNull, JUndef} \/ v = Str(<<>>)

\* what the handler is to make of one field: the fallback's result when
\* the field is missing, the extracted value otherwise
FallbackWhenMissing(extracted, fallback) == IF Missing(extracted) THEN fallback ELSE extracted

\* C14: the fallbacks are applied exactly when data is missing: when
\* extractProfileData yields no bio (no website) the record holds the result
\* of extractBioFromAnywhere (extractWebsiteFromAnywhere), also for a page
\* whose JSON-LD lacks description or url; an extracted field is left alone.
FallbacksWhenMissing ==
    op = "requestHandler" =>
        /\ res.bio = FallbackWhenMissing(ExtractProfileData(arg.page, arg.url).bio,
                                         ExtractBioFromAnywhere(arg.page))
        /\ res.website = FallbackWhenMissing(ExtractProfileData(arg.page, arg.url).website,
                                             ExtractWebsiteFromAnywhere(arg.page))


NullOrPositive(count) == count = JNull \/ (count.t = "number" /\ count.v > 0)

\* C15: in every profile record of the first script each of followers,
\* following and postsCount is null or a positive integer, never 0,
\* whichever strategy produced the count.
CountsNullOrPositive ==
    op = "requestHandler" =>
        /\ NullOrPositive(res.followers)
        /\ NullOrPositive(res.following)
        /\ NullOrPositive(res.postsCount)

\* a count of 0 from window._sharedData, and one from the body text, emitted as null
ZeroCountsEmittedAsNull ==
    /\ op = "requestHandler"
    /\ arg.page.sharedUser # NoUser /\ arg.page.sharedUser.media = Num(0)
    /\ arg.page.ogDescStats # NoMatch
    /\ res.postsCount = JNull
    /\ res.followers # JNull


\* the path segments of a request url: its non-empty parts after scheme and host
PathSegments(url) == SubSeq(SplitSlash(url, <<>>), 3, Len(SplitSlash(url, <<>>)))

\* neither sharedData nor JSON-LD nor og:title yields a username
NothingYieldsUsername(page) ==
    /\ page.sharedUser = NoUser
    /\ page.jsonLd = NoJsonLd
    /\ \/ page.ogTitle = JUndef
       \/ UsernameFromTitle(page.ogTitle.v) \in {NoMatch, Str(<<>>)}

\* C20: every profile record of the first script has a non-empty username;
\* when sharedData, JSON-LD and og:title yield nothing it is the last
\* non-empty path segment of the request url, which every accepted url has.
UsernameIsPathSegment ==
    op = "requestHandler" =>
        /\ res.username.t = "string" /\ StrLen(res.username.v) > 0
        /\ NothingYieldsUsername(arg.page) =>
              /\ PathSegments(arg.url) # <<>>
              /\ res.username = Str(PathSegments(arg.url)[Len(PathSegments(arg.url))])


---------------------------------------------------------------------------
(* URL preparation of main.js *)

\* profileUrls of the input holds an entry that URL preparation rejects
HasBadEntry ==
    /\ input # JNull
    /\ ~NoProfileUrls(Destructure(input))
    /\ BadIndexes(Destructure(input).profileUrls.v) # {}

\* C18: URL preparation is all-or-nothing: with an entry of profileUrls that
\* is neither a string nor an object with a url, or that does not contain
\* 'instagram.com/', the run throws before crawler.run: no url of the list
\* is fetched, the valid ones before the bad entry included, and no record
\* is pushed.
BadEntryStopsRun ==
    (HasBadEntry /\ pc \notin {"start", "validated"}) =>
        /\ pc = "threw"
        /\ err \in {InvalidUrlError, NotInstagramError}
        /\ requests = <<>> /\ req = <<>> /\ calls = <<>> /\ dataset = <<>>

\* the run has thrown on a bad entry that follows a valid one
ThrewAfterValidEntry ==
    /\ pc = "threw"
    /\ HasBadEntry
    /\ EntryUrl(Destructure(input).profileUrls.v[1]).error = NoError
    /\ err = NotInstagramError


\* the strings profileUrls may hold, as chunks; URL preparation accepts
\* those that contain 'instagram.com/'
MaxUrlChunks == 4
UrlChunks == {"http", "s", ":", "/", "www.", "instagram.com", Names[1]}
UrlStrings == UNION { [1..n -> UrlChunks] : n \in 0..MaxUrlChunks }
AcceptedUrls == { u \in UrlStrings : EntryUrl(Str(u)).error = NoError }

InitUrl ==
    /\ arg \in AcceptedUrls
    /\ pc = "url"
    /\ script = "main.js"
    /\ res = JNull /\ op = "none"
    /\ input = JNull /\ err = NoError /\ opts = NoOpts /\ requests = <<>>
    /\ req = <<>> /\ dataset = <<>> /\ calls = <<>>

\* lines 561-565 applied to an accepted url
Normalize ==
    /\ pc = "url" /\ op = "none"
    /\ res' = NormalizeUrl(arg)
    /\ op' = "normalized"
    /\ UNCHANGED <<runVars, script, arg>>

\* the same lines applied to their own result
NormalizeAgain ==
    /\ pc = "url" /\ op = "normalized"
    /\ res' = NormalizeUrl(res)
    /\ op' = "normalizedAgain"
    /\ UNCHANGED <<runVars, script, arg>>

NextUrl == Normalize \/ NormalizeAgain

SpecUrl == InitUrl /\ [][NextUrl]_vars

\* C19: URL normalisation is idempotent: for every accepted url u,
\* normalising the normalised url again returns it unchanged.
NormalizeIdempotent ==
    op = "normalizedAgain" => res = NormalizeUrl(arg)


---------------------------------------------------------------------------
(* parseInstagramCount applied to one value *)

\* the strings a count may be given as, one character per chunk
MaxCountLen == 3
CountChars == {"0", "1", "2", "5", ",", ".", " ", "k", "K", "m", "M", "b", "a", "-"}
CountExamples ==
    { <<"1", ",", "2", "3", "4">>, <<"1", "2", "K">>, <<"1", "2", "k">>,
      <<"1", ".", "5", "M">>, <<"1", ",", "2", "3", "4", ".", "5">>, <<"2", ".", "1", "b">> }

\* the leading integer of the cleaned string stays where its product with
\* the multiplier is a machine integer of the model
InModelRange(s) ==
    Has(Lower(s), "b") => DigitsVal(PrefixIn(Without(s, {",", " "}), Digits)) < 2

CountStrings ==
    { s \in UNION { [1..n -> CountChars] : n \in 0..MaxCountLen } : InModelRange(s) }
    \cup CountExamples

InitCount ==
    /\ arg \in {JNull, JUndef} \cup { Str(s) : s \in CountStrings }
    /\ pc = "count"
    /\ script = "main.js"
    /\ res = JNull /\ op = "none"
    /\ input = JNull /\ err = NoError /\ opts = NoOpts /\ requests = <<>>
    /\ req = <<>> /\ dataset = <<>> /\ calls = <<>>

ParseCount ==
    /\ pc = "count" /\ op = "none"
    /\ res' = ParseInstagramCount(arg)
    /\ op' = "parseInstagramCount"
    /\ UNCHANGED <<runVars, script, arg>>

NextCount == ParseCount

SpecCount == InitCount /\ [][NextCount]_vars

\* The reference format: digits with thousands commas and whitespace among
\* them, optionally a point and digits, optionally one of K, M, B in either
\* case.  RefInteger, RefDecimals and RefSuffix are the three parts of s.
RefInteger(s) == PrefixIn(s, Digits \cup {",", " "})
RefAfterInteger(s) == SubSeq(s, Len(RefInteger(s)) + 1, Len(s))
RefDecimals(s) ==
    IF RefAfterInteger(s) # <<>> /\ Head(RefAfterInteger(s)) = "."
    THEN PrefixIn(Tail(RefAfterInteger(s)), Digits)
    ELSE <<>>
RefPointLen(s) ==
    IF RefAfterInteger(s) # <<>> /\ Head(RefAfterInteger(s)) = "." THEN 1 + Len(RefDecimals(s))
    ELSE 0
RefSuffix(s) == SubSeq(RefAfterInteger(s), RefPointLen(s) + 1, Len(RefAfterInteger(s)))

InReferenceFormat(s) ==
    /\ s # <<>> /\ Head(s) \in Digits
    /\ RefPointLen(s) # 1
    /\ RefSuffix(s) \in {<<>>, <<"k">>, <<"K">>, <<"m">>, <<"M">>, <<"b">>, <<"B">>}

RefMultiplier(suffix) ==
    CASE suffix \in {<<"k">>, <<"K">>} -> 1000
      [] suffix \in {<<"m">>, <<"M">>} -> 1000000
      [] suffix \in {<<"b">>, <<"B">>} -> 1000000000
      [] OTHER -> 1

\* the integers nearest to f / q: two of them at a tie
NearestQuotient(f, q) ==
    IF 2 * (f % q) < q THEN {f \div q}
    ELSE IF 2 * (f % q) > q THEN {f \div q + 1}
    ELSE {f \div q, f \div q + 1}

\* the integers nearest to 0.d1d2... times mult
NearestToDecimals(decimals, mult) ==
    IF mult % Pow10(Len(decimals)) = 0
    THEN {DigitsVal(decimals) * (mult \div Pow10(Len(decimals)))}
    ELSE NearestQuotient(DigitsVal(decimals), Pow10(Len(decimals)) \div mult)

RefCounts(s) ==
    { DigitsVal(Without(RefInteger(s), {",", " "})) * RefMultiplier(RefSuffix(s)) + n :
        n \in NearestToDecimals(RefDecimals(s), RefMultiplier(RefSuffix(s))) }

\* C16: parseInstagramCount agrees with the reference: for a string in the
\* reference format the result is the number times 1, 1000, 1000000 or
\* 1000000000 rounded to the nearest integer ('1,234' gives 1234, '12K' and
\* '12k' give 12000, '1.5M' gives 1500000); an empty or absent input gives
\* null.
CountAgreesWithReference ==
    op = "parseInstagramCount" =>
        /\ arg \in {JNull, JUndef, Str(<<>>)} => res = JNull
        /\ (arg.t = "string" /\ InReferenceFormat(arg.v))
              => res.t = "number" /\ res.v \in RefCounts(arg.v)
        /\ arg = Str(<<"1", ",", "2", "3", "4">>) => res = Num(1234)
        /\ arg \in {Str(<<"1", "2", "K">>), Str(<<"1", "2", "k">>)} => res = Num(12000)
        /\ arg = Str(<<"1", ".", "5", "M">>) => res = Num(1500000)

\* the count '1.5M' has been parsed
SuffixedCountParsed ==
    /\ op = "parseInstagramCount"
    /\ arg = Str(<<"1", ".", "5", "M">>)
    /\ res = Num(1500000)

\* C17: for every string input, the captures of /^([\d,\.kmb]+)/ included,
\* parseInstagramCount returns null or a non-negative integer, never NaN.
CountNullOrNatural ==
    op = "parseInstagramCount" => res = JNull \/ (res.t = "number" /\ res.v >= 0)


---------------------------------------------------------------------------
(* Records of one handler invocation *)

HasProfileRecord(u) ==
    \E i \in DOMAIN dataset : IsProfileRecord(dataset[i]) /\ RecordUrl(dataset[i]) = u

\* C21: one invocation of the Playwright request handler of part_003 never
\* pushes both a profile record and an error record for the same url: a
\* failure after the push of the profile record (the 15-25 s wait) adds no
\* error record.
NeverBothRecords ==
    script = "part_003:386" => \A u \in Urls : ~(HasProfileRecord(u) /\ HasErrorRecord(u))


---------------------------------------------------------------------------
(* The posts extractRecentPosts returns *)

\* a link qualifies with an href that contains '/p/' or '/reel/' and an image
Qualifies(a) == (Has(a.href, "/p/") \/ Has(a.href, "/reel/")) /\ a.img # NoImg
QualifyingLinks(anchors) == SelectSeq(anchors, Qualifies)

IsAbsolute(url) == Len(url) > 5 /\ SubSeq(url, 1, 5) = <<"http", "s", ":", "/", "/">>
AbsoluteHref(href) == IF IsAbsolute(href) THEN href ELSE InstagramOrigin \o href

\* C22: extractRecentPosts of main.js returns exactly the first
\* min(maxPosts, Q) of the Q qualifying links, in document order; a link
\* without an image is skipped and does not consume the limit; every
\* returned url is absolute, a relative href prefixed with
\* 'https://www.instagram.com'.
FirstQualifyingPosts ==
    op = "main.js" =>
        /\ Len(res.v) = Min(arg.maxPosts, Len(QualifyingLinks(arg.anchors)))
        /\ \A i \in 1..Len(res.v) :
              /\ res.v[i].url = Str(AbsoluteHref(QualifyingLinks(arg.anchors)[i].href))
              /\ IsAbsolute(res.v[i].url.v)
              /\ res.v[i].imageUrl = QualifyingLinks(arg.anchors)[i].img.src

\* the first link has no image, the next one a relative href: the limit is
\* still reached and the url is prefixed
SkippedLinkAndPrefixedHref ==
    /\ op = "main.js"
    /\ Len(arg.anchors) >= 2
    /\ arg.anchors[1].img = NoImg /\ Has(arg.anchors[1].href, "/p/")
    /\ Len(res.v) = arg.maxPosts
    /\ res.v[1].url = Str(InstagramOrigin \o <<"/p/", "a">>)


---------------------------------------------------------------------------
(* Handlers that run side by side *)

---------------------------------------------------------------------------
(* calculateExtractionConfidence of part_001 applied to one object *)

RequiredFields == {"username", "followers", "following", "postsCount"}
OptionalFields == {"fullName", "bio", "profileImage", "website"}

\* the objects page.evaluate may return: each field a string, null or undefined
ConfidenceInputs ==
    [RequiredFields \cup OptionalFields -> {JNull, Str(<<"x">>)}]
    \cup { [f \in RequiredFields \cup OptionalFields |->
              IF f = g THEN JUndef ELSE IF f = h THEN JNull ELSE Str(<<>>)]
           : g \in RequiredFields, h \in OptionalFields }

InitConfidence ==
    /\ arg \in ConfidenceInputs
    /\ pc = "confidence"
    /\ script = "part_001"
    /\ res = JNull /\ op = "none"
    /\ input = JNull /\ err = NoError /\ opts = NoOpts /\ requests = <<>>
    /\ req = <<>> /\ dataset = <<>> /\ calls = <<>>

Confidence ==
    /\ pc = "confidence" /\ op = "none"
    /\ res' = CalculateExtractionConfidence(arg)
    /\ op' = "calculateExtractionConfidence"
    /\ UNCHANGED <<runVars, script, arg>>

NextConfidence == Confidence

SpecConfidence == InitConfidence /\ [][NextConfidence]_vars

\* round(17.5 * r + 7.5 * o), halves upwards
RoundedSum(r, o) == (35 * r + 15 * o + 1) \div 2

\* the object with one more field present
WithField(data, f) == [data EXCEPT ![f] = Str(<<"x">>)]

\* C24: calculateExtractionConfidence returns an integer between 0 and 100
\* equal to round(17.5 * r + 7.5 * o) for r required and o optional fields
\* that are not null; it is 100 exactly when all eight are present, 0
\* exactly when none is, and one more field present never lowers it.
ConfidenceIsRoundedSum ==
    op = "calculateExtractionConfidence" =>
        /\ res.t = "number" /\ res.v \in 0..100
        /\ res.v = RoundedSum(CountPresent(arg, RequiredFields),
                              CountPresent(arg, OptionalFields))
        /\ res.v = 100 <=> CountPresent(arg, RequiredFields \cup OptionalFields) = 8
        /\ res.v = 0 <=> CountPresent(arg, RequiredFields \cup OptionalFields) = 0
        /\ \A f \in RequiredFields \cup OptionalFields :
              CalculateExtractionConfidence(WithField(arg, f)).v >= res.v

=============================================================================
